---------------------------- MODULE Spec2Model ----------------------------
(***************************************************************************)
(* A model of the NEP fitness engine of GPUMD (class Fitness): the batch   *)
(* partition built by the constructor, the per-generation population       *)
(* dispatch of Fitness::compute over the devices, and the checkpoint of    *)
(* Fitness::report_error.  Arrays are 0-based functions, as in the source. *)
(***************************************************************************)
EXTENDS Integers, Sequences, FiniteSets, TLC

(***************************************************************************)
(* Bounds of the model.                                                    *)
(***************************************************************************)
\* largest training set (structures_train.size()) given to the constructor
MaxNc == 8
\* largest requested para.batch_size
MaxBatchSize == 4
\* largest cudaGetDeviceCount result
MaxDevices == 3
\* largest training set and requested batch size of a full run
MaxNcRun == 3
MaxBatchSizeRun == 2
\* largest para.population_size
MaxPopulation == 5
\* last generation of a run (the caller's maximum_generation - 1)
MaxGeneration == 6
\* largest generation report_error is called with
MaxReportGeneration == 2000
\* largest training set (in batches of one structure), device count and
\* population of a run through a training dump, and the last generation of
\* that run
MaxNcTraining == 2
MaxDevicesTraining == 2
MaxPopulationTraining == 2
LastTrainingGeneration == 999
\* most property tokens of one compute keyword, and the number_of_steps of
\* a run
MaxProperties == 2
NumberOfSteps == 2
\* para.number_of_variables and para.number_of_variables_ann
NumVariables == 3
NumVariablesAnn == 2

VARIABLES
  pc,                  \* position of the host thread
  structures_train,    \* per training structure, its neighbor counts
  structures_test,     \* per test structure, its neighbor counts
  version,             \* para.version
  evaluator,           \* how the potential's predictions relate to the references
  Nc_total,            \* structures_train.size()
  deviceCount,         \* cudaGetDeviceCount
  population_size,     \* para.population_size
  batch_size_old,      \* the requested para.batch_size (saved at line 45)
  batch_size,          \* para.batch_size
  num_batches,         \* Fitness::num_batches
  train_set,           \* Fitness::train_set[batch_id][device_id]
  test_set,            \* Fitness::test_set[device_id]
  max_NN_radial,       \* Fitness::max_NN_radial
  max_NN_angular,      \* Fitness::max_NN_angular
  batch_id,            \* loop variable / local batch_id of the running method
  device_id,           \* loop variable of the constructor
  generation,          \* the generation argument of compute / report_error
  min_population_iter, \* local of compute (line 122)
  n,                   \* loop variable n of compute
  m,                   \* loop variable m of compute
  device_in_this_iter, \* local of compute (line 135)
  fitness,             \* the caller's fitness array, 3 * population_size entries
  queue,               \* per device, the evaluations issued and not yet finished
  evals,               \* history: the find_force calls of the running method
  scored,              \* history: the individuals scored by the running compute
  visited,             \* history: the batch of each scoring generation so far
  elite,               \* the elite vector the caller passes to report_error
  atEntry,             \* history: elite and the files when report_error was entered
  energy_shift_per_structure, \* local of report_error (line 177)
  steps,               \* history: the steps the running report_error has performed
  nep_txt,             \* the snapshot file nep.txt
  loss_out,            \* the lines of loss.out
  test_out,            \* the Datasets dumped to energy/force/virial_test.out
  train_out,           \* the Datasets dumped to energy/force/virial_train.out
  measure_pc,          \* position of the driver of a Measure object
  USE_NETCDF,          \* whether the build defines USE_NETCDF
  compute,             \* Measure::compute, its compute_* flags
  shc,                 \* Measure::shc
  hnemd,               \* Measure::hnemd
  modal_analysis,      \* Measure::modal_analysis
  dump_pos,            \* Measure::dump_pos
  measure_step,        \* the step argument of the last Measure::process
  requested            \* history: the Measure members when finalize was entered

inputs == <<structures_train, structures_test, version, evaluator, Nc_total,
            deviceCount, population_size>>
partition == <<batch_size_old, batch_size, num_batches>>
neighbors == <<max_NN_radial, max_NN_angular>>
ctorLocals == <<batch_id, device_id>>
computeLocals == <<min_population_iter, n, m, device_in_this_iter>>
computeState == <<generation, fitness, queue, evals, scored, visited>>
files == <<nep_txt, loss_out, test_out, train_out>>
reportState == <<elite, energy_shift_per_structure, atEntry, steps, files>>

fitnessState == <<pc, inputs, partition, train_set, test_set, neighbors,
                  ctorLocals, computeLocals, computeState, reportState>>
measureMembers == <<compute, shc, hnemd, modal_analysis, dump_pos>>
measureState == <<measure_pc, USE_NETCDF, measureMembers, measure_step, requested>>

vars == <<pc, inputs, partition, train_set, test_set, neighbors, ctorLocals,
          computeLocals, computeState, reportState, measureState>>

\* structures_test.size()
NumTest == Cardinality(DOMAIN structures_test)

(***************************************************************************)
(* Helpers.                                                                *)
(***************************************************************************)
Min(a, b) == IF a < b THEN a ELSE b

\* the mathematical ceiling of a/b, for a >= 0 and b >= 1 (not the code's formula)
Ceil(a, b) == CHOOSE k \in 0..a : k * b >= a /\ (k = 0 \/ (k - 1) * b < a)

\* the parameters a Dataset's prediction buffers were last computed from
NoParams == [who |-> "none", index |-> 0, bias |-> 0]

\* a Dataset that has been resized into its vector but not constructed
EmptyDataset == [constructed |-> FALSE, n1 |-> 0, n2 |-> 0, device |-> 0,
                 max_NN_radial |-> 0, max_NN_angular |-> 0,
                 pred |-> NoParams, residual |-> 0, warmed |-> FALSE,
                 writers |-> {}]

\* the largest element of a finite set of naturals, 0 for the empty set
MaxOf(S) == IF S = {} THEN 0 ELSE CHOOSE x \in S : \A y \in S : y <= x

\* the neighbor bound Dataset::construct finds for structures [n1, n2): the
\* largest neighbor count among those of them that exist
NeighborBound(structures, n1, n2, kind) ==
  MaxOf({structures[s][kind] : s \in (n1..(n2 - 1)) \cap DOMAIN structures})

\* Dataset::construct(input_dir, para, structures, n1, n2, device_id)
Construct(structures, n1, n2, dev) ==
  [constructed |-> TRUE, n1 |-> n1, n2 |-> n2, device |-> dev,
   max_NN_radial |-> NeighborBound(structures, n1, n2, "radial"),
   max_NN_angular |-> NeighborBound(structures, n1, n2, "angular"),
   pred |-> NoParams, residual |-> 0, warmed |-> FALSE, writers |-> {}]

(***************************************************************************)
(* Fitness::Fitness, lines 42-57: the batch partition.                     *)
(***************************************************************************)
\* a classic slip: size / b + 1 instead of (size - 1) / b + 1
NumBatchesOffByOne(size, b) == size \div b + 1

\* the quotient a / b of line 42, computed in size_t with the int b converted
\* to size_t, for 0 <= a < 2^31: a negative b becomes 2^64 + b, which is
\* larger than a, so the quotient is 0; b = 0 is a division by zero, which
\* either traps (Fitness_DivideByZero) or gives 0, depending on the machine
UnsignedDiv(a, b) == IF b <= 0 THEN 0 ELSE a \div b

\* line 42: num_batches = (structures_train.size() - 1) / para.batch_size + 1
NumBatches(size, b) == UnsignedDiv(size - 1, b) + 1

\* a classic slip: size / nb + 1 instead of (size - 1) / nb + 1
EffectiveBatchSizeOffByOne(size, nb) == size \div nb + 1

\* line 46: para.batch_size = (structures_train.size() - 1) / num_batches + 1
EffectiveBatchSize(size, nb) == (size - 1) \div nb + 1

\* line 56: n1 = batch_id * para.batch_size
BatchBegin(b, bs) == b * bs

\* the upper end without the clamp to the training-set size
BatchEndUnclamped(size, n1, bs) == n1 + bs

\* line 57: n2 = std::min(int(structures_train.size()), n1 + para.batch_size)
BatchEnd(size, n1, bs) == Min(size, n1 + bs)

(***************************************************************************)
(* Initial states: the inputs of the constructor and of the run.           *)
(***************************************************************************)
\* an elite vector of zeros
ZeroElite == [j \in 0..(NumVariables - 1) |-> 0]

\* the value an entry of the fitness array holds before compute writes it
CallerValue ==
  [comp |-> "caller", pred |-> NoParams, batch |-> 0, ds |-> 0, value |-> -1]

\* the neighbor counts of a structure when they play no part
PlainNeighbors == {[radial |-> 1, angular |-> 1]}

\* neighbor counts whose radial and angular maxima lie in different structures
NeighborInputs == {[radial |-> 1, angular |-> 2], [radial |-> 2, angular |-> 1]}

\* a potential whose predictions equal the references, and one whose
\* predictions are off by a constant of magnitude 1
Evaluators == {"exact", "offset"}

\* the members of a Measure object before any keyword has been parsed
NoMeasurements ==
  [compute |-> [compute_temperature |-> 0, compute_potential |-> 0,
                compute_force |-> 0, compute_virial |-> 0, compute_jp |-> 0,
                compute_jk |-> 0],
   shc |-> [compute |-> 0],
   hnemd |-> [compute |-> 0],
   modal_analysis |-> [compute |-> 0, method |-> "NO_METHOD"],
   dump_pos |-> "NULL"]

\* a Measure object as constructed, in a build with or without NetCDF
InitMeasure(NetcdfSet) ==
  /\ measure_pc = "parsing"
  /\ USE_NETCDF \in NetcdfSet
  /\ compute = NoMeasurements.compute
  /\ shc = NoMeasurements.shc
  /\ hnemd = NoMeasurements.hnemd
  /\ modal_analysis = NoMeasurements.modal_analysis
  /\ dump_pos = NoMeasurements.dump_pos
  /\ measure_step = 0
  /\ requested = NoMeasurements

InitFitnessWith(NcSet, BSet, DSet, PSet, NNSet, VSet, ESet) ==
  /\ pc = "read_train"
  /\ Nc_total \in NcSet
  /\ structures_train \in [0..(Nc_total - 1) -> NNSet]
  /\ structures_test \in [{0} -> NNSet]
  /\ version \in VSet
  /\ evaluator \in ESet
  /\ max_NN_radial = 0
  /\ max_NN_angular = 0
  /\ batch_size \in BSet
  /\ batch_size_old = batch_size
  /\ deviceCount \in DSet
  /\ population_size \in PSet
  /\ num_batches = 0
  /\ train_set = <<>>
  /\ test_set = <<>>
  /\ batch_id = 0
  /\ device_id = 0
  /\ generation = 0
  /\ min_population_iter = 0
  /\ n = 0
  /\ m = 0
  /\ device_in_this_iter = 0
  /\ fitness = [i \in 0..(3 * population_size - 1) |-> CallerValue]
  /\ queue = [d \in 0..(deviceCount - 1) |-> <<>>]
  /\ evals = <<>>
  /\ scored = <<>>
  /\ visited = <<>>
  /\ elite = ZeroElite
  /\ energy_shift_per_structure = 0
  /\ atEntry = [elite |-> ZeroElite, files |-> <<<<>>, <<>>, <<>>, <<>>>>]
  /\ steps = <<>>
  /\ nep_txt = <<>>
  /\ loss_out = <<>>
  /\ test_out = <<>>
  /\ train_out = <<>>

InitWith(NcSet, BSet, DSet, PSet, NNSet, VSet, ESet) ==
  /\ InitMeasure({FALSE})
  /\ InitFitnessWith(NcSet, BSet, DSet, PSet, NNSet, VSet, ESet)

InitConstruct ==
  InitWith(1..MaxNc, 1..MaxBatchSize, 1..MaxDevices, {1}, PlainNeighbors, {3},
           {"exact"})

InitRun ==
  InitWith(1..MaxNcRun, 1..MaxBatchSizeRun, 1..MaxDevices, 1..MaxPopulation,
           PlainNeighbors, {3}, Evaluators)

(***************************************************************************)
(* Fitness::Fitness.                                                       *)
(***************************************************************************)
\* lines 40-54: read train.in, compute num_batches and the effective batch
\* size, resize train_set to num_batches x deviceCount
Fitness_ReadTrain ==
  /\ pc = "read_train"
  /\ num_batches' = NumBatches(Nc_total, batch_size)
  /\ batch_size_old' = batch_size
  /\ batch_size' = EffectiveBatchSize(Nc_total, num_batches')
  /\ train_set' = [b \in 0..(num_batches' - 1) |->
                     [d \in 0..(deviceCount - 1) |-> EmptyDataset]]
  /\ batch_id' = 0
  /\ device_id' = 0
  /\ pc' = "construct_train"
  /\ UNCHANGED <<measureState, reportState, neighbors, inputs, test_set, computeLocals, computeState>>

\* line 42 with para.batch_size = 0: the division by zero traps
Fitness_DivideByZero ==
  /\ pc = "read_train"
  /\ batch_size = 0
  /\ pc' = "crashed"
  /\ UNCHANGED <<measureState, reportState, neighbors, inputs, partition, train_set, test_set,
                 ctorLocals, computeLocals, computeState>>

\* lines 55-67: one iteration of the inner loop, constructing
\* train_set[batch_id][device_id] over [n1, n2)
Fitness_ConstructTrain ==
  /\ pc = "construct_train"
  /\ batch_id < num_batches
  /\ LET n1 == BatchBegin(batch_id, batch_size)
         n2 == BatchEnd(Nc_total, n1, batch_size)
     IN  train_set' = [train_set EXCEPT ![batch_id][device_id] =
                         Construct(structures_train, n1, n2, device_id)]
  /\ IF device_id + 1 < deviceCount
       THEN /\ device_id' = device_id + 1
            /\ batch_id' = batch_id
       ELSE /\ device_id' = 0
            /\ batch_id' = batch_id + 1
  /\ UNCHANGED <<measureState, reportState, neighbors, pc, inputs, partition, test_set, computeLocals, computeState>>

\* lines 68-73: the batch loop is over; read test.in and resize test_set
Fitness_ReadTest ==
  /\ pc = "construct_train"
  /\ batch_id >= num_batches
  /\ test_set' = [d \in 0..(deviceCount - 1) |-> EmptyDataset]
  /\ device_id' = 0
  /\ pc' = "construct_test"
  /\ UNCHANGED <<measureState, reportState, neighbors, inputs, partition, train_set, batch_id, computeLocals,
                 computeState>>

\* lines 74-80: one iteration of the test-set loop; the test set is one
\* Dataset over all of structures_test
Fitness_ConstructTest ==
  /\ pc = "construct_test"
  /\ device_id < deviceCount
  /\ test_set' = [test_set EXCEPT ![device_id] =
                    Construct(structures_test, 0, NumTest, device_id)]
  /\ device_id' = device_id + 1
  /\ UNCHANGED <<measureState, reportState, neighbors, pc, inputs, partition, train_set, batch_id, computeLocals,
                 computeState>>

\* the running maximum started from zero instead of the test set's value
MaxNeighborStartZero(field) == 0

\* lines 85-86: max_NN_radial = test_set[0].max_NN_radial, and the same for
\* max_NN_angular
MaxNeighborStart(field) == test_set[0][field]

\* lines 87, 98-103: the loop over the batches, from iteration nn on, keeping
\* the larger of the running maximum and train_set[nn][0]'s value
RECURSIVE MaxNeighborLoop(_, _, _)
MaxNeighborLoop(current, nn, field) ==
  IF nn < num_batches
    THEN MaxNeighborLoop(IF train_set[nn][0][field] > current
                           THEN train_set[nn][0][field]
                           ELSE current,
                         nn + 1, field)
    ELSE current

\* lines 82-113: the neighbor bounds are computed and the constructor
\* returns (N and the N * max_NN products of lines 82-96 only size the
\* evaluator's buffers and are not modelled)
Fitness_Done ==
  /\ pc = "construct_test"
  /\ device_id >= deviceCount
  /\ max_NN_radial' =
       MaxNeighborLoop(MaxNeighborStart("max_NN_radial"), 0, "max_NN_radial")
  /\ max_NN_angular' =
       MaxNeighborLoop(MaxNeighborStart("max_NN_angular"), 0, "max_NN_angular")
  /\ pc' = "ready"
  /\ batch_id' = 0
  /\ device_id' = 0
  /\ UNCHANGED <<measureState, reportState, inputs, partition, train_set, test_set, computeLocals,
                 computeState>>

Fitness_Fitness ==
  \/ Fitness_ReadTrain
  \/ Fitness_ConstructTrain
  \/ Fitness_ReadTest
  \/ Fitness_ConstructTest
  \/ Fitness_Done

NextConstruct == Fitness_Fitness

SpecConstruct == InitConstruct /\ [][NextConstruct]_vars

(***************************************************************************)
(* The batch partition built by the constructor.                           *)
(***************************************************************************)
Constructed == pc = "ready"

\* the range of batch b, as constructed on device 0
Range(b) == train_set[b][0].n1 .. (train_set[b][0].n2 - 1)

BatchSizeOf(b) == train_set[b][0].n2 - train_set[b][0].n1

\* C1: after construction num_batches = ceil(Nc_total / b), the effective batch
\* size is ceil(Nc_total / num_batches), every Dataset of batch k is built over
\* [k * effective, min(Nc_total, k * effective + effective)), consecutive ranges
\* are contiguous from 0 to Nc_total, and every structure index lies in exactly
\* one batch.
C1_PartitionCoversOnce ==
  Constructed =>
    /\ num_batches = Ceil(Nc_total, batch_size_old)
    /\ batch_size = Ceil(Nc_total, num_batches)
    /\ DOMAIN train_set = 0..(num_batches - 1)
    /\ \A b \in 0..(num_batches - 1) : \A d \in 0..(deviceCount - 1) :
          /\ train_set[b][d].constructed
          /\ train_set[b][d].n1 = b * batch_size
          /\ train_set[b][d].n2 = Min(Nc_total, b * batch_size + batch_size)
    /\ train_set[0][0].n1 = 0
    /\ train_set[num_batches - 1][0].n2 = Nc_total
    /\ \A b \in 0..(num_batches - 2) : train_set[b][0].n2 = train_set[b + 1][0].n1
    /\ \A s \in 0..(Nc_total - 1) :
          Cardinality({b \in 0..(num_batches - 1) : s \in Range(b)}) = 1

\* a constructed partition with several batches and a short last batch
C1_Witness ==
  /\ Constructed
  /\ num_batches >= 2
  /\ batch_size # batch_size_old
  /\ BatchSizeOf(num_batches - 1) < batch_size

\* C10 as stated: the sizes of any two batches differ by at most 1.
C10_SizesDifferByAtMostOne ==
  Constructed =>
    \A a, b \in 0..(num_batches - 1) :
      BatchSizeOf(a) - BatchSizeOf(b) <= 1

\* C10 amended: every batch but the last holds exactly the effective batch size,
\* and the last holds the remainder Nc_total - (num_batches - 1) * effective,
\* which is between 1 and the effective batch size.
C10_AllButLastFull ==
  Constructed =>
    /\ \A b \in 0..(num_batches - 2) : BatchSizeOf(b) = batch_size
    /\ BatchSizeOf(num_batches - 1) = Nc_total - (num_batches - 1) * batch_size
    /\ BatchSizeOf(num_batches - 1) >= 1
    /\ BatchSizeOf(num_batches - 1) <= batch_size

\* a partition whose last batch is smaller than the others by more than 1
C10_Witness ==
  /\ Constructed
  /\ num_batches >= 2
  /\ BatchSizeOf(0) - BatchSizeOf(num_batches - 1) >= 2

(***************************************************************************)
(* The potential evaluator (NEP3::find_force) and the devices.  The host   *)
(* issues one evaluation per device; each device works through what was   *)
(* issued to it in order, asynchronously with respect to the host, and a   *)
(* host read of a Dataset waits for the Dataset's device.                  *)
(***************************************************************************)
\* individual i of the population
Individual(i) == [who |-> "individual", index |-> i, bias |-> 0]

\* the all-ones dummy_solution of the warm-up (line 125)
Ones == [who |-> "ones", index |-> 0, bias |-> 0]

\* the parameters device d evaluates when find_force is given `params` for the
\* first device: consecutive individuals of the population, or the one vector
ParamsOnDevice(params, d) ==
  IF params.who = "individual" THEN Individual(params.index + d) ELSE params

\* potential->find_force(para, params, dataset, warmup, ndev) where dataset is
\* train_set[b] (set = "train") or test_set (set = "test"): device d < ndev is
\* issued the evaluation of its parameters on dataset[d]
find_force(q, params, set, b, warmup, ndev) ==
  [d \in DOMAIN q |->
     IF d < ndev
       THEN Append(q[d], [set |-> set, batch |-> b, ds |-> d,
                          params |-> ParamsOnDevice(params, d),
                          warmup |-> warmup])
       ELSE q[d]]

\* the record of a find_force call in the history
EvalRecord(params, set, b, warmup, ndev) ==
  [params |-> params, set |-> set, batch |-> b, warmup |-> warmup, ndev |-> ndev]

\* the magnitude by which the predictions an evaluation writes differ from
\* the references
Residual(kind) == IF kind = "exact" THEN 0 ELSE 1

\* a Dataset after an evaluation by device d has filled its prediction
\* buffers; an evaluation with warmup = true computes the Dataset's
\* descriptor scaler
Evaluated(ds, job, d) ==
  [ds EXCEPT !.pred = job.params, !.residual = Residual(evaluator),
             !.warmed = @ \/ job.warmup, !.writers = @ \cup {d}]

\* Dataset::get_rmse_energy / get_rmse_force / get_rmse_virial: the root mean
\* square of the residuals of the Dataset's predictions
get_rmse(ds) == ds.residual

\* device d finishes the oldest evaluation issued to it, writing the
\* predictions into the Dataset it was issued for
Device_Run(d) ==
  /\ queue[d] # <<>>
  /\ LET job == Head(queue[d])
     IN  /\ queue' = [queue EXCEPT ![d] = Tail(@)]
         /\ IF job.set = "train"
              THEN /\ train_set' = [train_set EXCEPT ![job.batch][job.ds] =
                                      Evaluated(@, job, d)]
                   /\ UNCHANGED test_set
              ELSE /\ test_set' = [test_set EXCEPT ![job.ds] = Evaluated(@, job, d)]
                   /\ UNCHANGED train_set
  /\ UNCHANGED <<measureState, reportState, neighbors, pc, inputs, partition, ctorLocals, computeLocals, generation,
                 fitness, evals, scored, visited>>

\* the copy-back of a Dataset's buffers has completed: nothing issued to the
\* Dataset's device is still pending
Synced(d) == queue[d] = <<>>

(***************************************************************************)
(* Fitness::compute.                                                       *)
(***************************************************************************)
\* a warm-up test that never succeeds
NeverWarmup(g) == FALSE

\* a warm-up at the start of every cycle through the batches
WarmupEveryCycle(g) == g % num_batches = 0

\* line 124: if (generation == 0)
IsWarmup(g) == g = 0

\* a batch choice that ignores the generation
BatchOfFirst(g, nb) == 0

\* line 132: batch_id = generation % num_batches
BatchOf(g, nb) == g % nb

\* one chunk too few when the population is no multiple of the device count
MinPopulationIterFloor(P, D) == P \div D

\* line 122: min_population_iter = (para.population_size - 1) / deviceCount + 1
MinPopulationIter(P, D) == (P - 1) \div D + 1

\* line 135: device_in_this_iter = min(deviceCount, population_size - deviceCount * n)
DeviceInThisIter(D, P, chunk) == Min(D, P - D * chunk)

\* the inner loop stops one individual short
InnerLoopShort(mm, k) == mm < k - 1

\* line 137: m < device_in_this_iter
InnerLoopRuns(mm, k) == mm < k

\* every individual of a chunk scored from the Dataset of device 0
ScoredDatasetZero(mm) == 0

\* lines 141-145: the Dataset index in train_set[batch_id][m]
ScoredDataset(mm) == mm

\* the three components of an individual stored next to each other
FitnessIndexInterleaved(D, chunk, mm, k, P) == 3 * (D * chunk + mm) + k

\* lines 139-145: the index of component k of individual deviceCount * n + m
FitnessIndex(D, chunk, mm, k, P) == D * chunk + mm + k * P

Component(k) == <<"energy", "force", "virial">>[k + 1]

\* para.lambda_e, para.lambda_f, para.lambda_v: the weights of the components
Lambda(k) == <<2, 3, 5>>[k + 1]

\* the weight added to the error instead of multiplying it
FitnessValueSum(k, rmse) == Lambda(k) + rmse

\* lines 139-146: para.lambda_e * get_rmse_energy(...), para.lambda_f *
\* get_rmse_force(...), para.lambda_v * get_rmse_virial(...)
FitnessValue(k, rmse) == Lambda(k) * rmse

\* lines 120-132: compute(generation, ...) is entered
compute_Enter(g) ==
  /\ generation' = g
  /\ min_population_iter' = MinPopulationIter(population_size, deviceCount)
  /\ n' = 0
  /\ m' = 0
  /\ device_in_this_iter' = 0
  /\ evals' = <<>>
  /\ scored' = <<>>
  /\ IF IsWarmup(g)
       THEN /\ pc' = "warmup_train"
            /\ UNCHANGED <<batch_id, visited>>
       ELSE /\ batch_id' = BatchOf(g, num_batches)
            /\ visited' = Append(visited, batch_id')
            /\ pc' = "score_issue"
  /\ UNCHANGED <<measureState, reportState, neighbors, inputs, partition, train_set, test_set, device_id, fitness, queue>>

\* a warm-up of the training batches on the first device only
WarmupOneDevice(D) == 1

\* line 127: the device count given to the warm-up of a training batch
WarmupDevices(D) == D

\* line 127: find_force(para, dummy_solution, train_set[n], true, deviceCount)
compute_WarmupTrain ==
  /\ pc = "warmup_train"
  /\ n < num_batches
  /\ LET ndev == WarmupDevices(deviceCount)
     IN  /\ queue' = find_force(queue, Ones, "train", n, TRUE, ndev)
         /\ evals' = Append(evals, EvalRecord(Ones, "train", n, TRUE, ndev))
  /\ pc' = "warmup_test"
  /\ UNCHANGED <<measureState, reportState, neighbors, inputs, partition, train_set, test_set, ctorLocals,
                 computeLocals, generation, fitness, scored, visited>>

\* line 128, inside the loop over the batches:
\* find_force(para, dummy_solution, test_set, true, 1)
compute_WarmupTest ==
  /\ pc = "warmup_test"
  /\ queue' = find_force(queue, Ones, "test", 0, TRUE, 1)
  /\ evals' = Append(evals, EvalRecord(Ones, "test", 0, TRUE, 1))
  /\ n' = n + 1
  /\ pc' = "warmup_train"
  /\ UNCHANGED <<measureState, reportState, neighbors, inputs, partition, train_set, test_set, ctorLocals,
                 min_population_iter, m, device_in_this_iter, generation,
                 fitness, scored, visited>>

\* lines 126, 131: the warm-up loop is over and compute returns
compute_WarmupReturn ==
  /\ pc = "warmup_train"
  /\ n >= num_batches
  /\ pc' = "computed"
  /\ UNCHANGED <<measureState, reportState, neighbors, inputs, partition, train_set, test_set, ctorLocals,
                 computeLocals, computeState>>

\* lines 133-136: chunk n is issued to the devices
compute_Issue ==
  /\ pc = "score_issue"
  /\ n < min_population_iter
  /\ device_in_this_iter' = DeviceInThisIter(deviceCount, population_size, n)
  /\ queue' = find_force(queue, Individual(deviceCount * n), "train", batch_id,
                         FALSE, device_in_this_iter')
  /\ evals' = Append(evals, EvalRecord(Individual(deviceCount * n), "train",
                                       batch_id, FALSE, device_in_this_iter'))
  /\ m' = 0
  /\ pc' = "score_read"
  /\ UNCHANGED <<measureState, reportState, neighbors, inputs, partition, train_set, test_set, ctorLocals,
                 min_population_iter, n, generation, fitness, scored, visited>>

\* lines 137-147: one iteration of the inner loop; the three fitness values of
\* individual deviceCount * n + m are read from train_set[batch_id][m]
compute_Read ==
  /\ pc = "score_read"
  /\ InnerLoopRuns(m, device_in_this_iter)
  /\ LET j == ScoredDataset(m)
         value(k) == [comp |-> Component(k), pred |-> train_set[batch_id][j].pred,
                      batch |-> batch_id, ds |-> j,
                      value |-> FitnessValue(k, get_rmse(train_set[batch_id][j]))]
         index(k) == FitnessIndex(deviceCount, n, m, k, population_size)
     IN  /\ Synced(train_set[batch_id][j].device)
         /\ fitness' = [i \in DOMAIN fitness |->
                          IF i = index(2) THEN value(2)
                          ELSE IF i = index(1) THEN value(1)
                          ELSE IF i = index(0) THEN value(0)
                          ELSE fitness[i]]
         /\ scored' = Append(scored, [ind |-> deviceCount * n + m, chunk |-> n,
                                      m |-> m,
                                      written |-> <<index(0), index(1), index(2)>>])
  /\ m' = m + 1
  /\ UNCHANGED <<measureState, reportState, neighbors, pc, inputs, partition, train_set, test_set, ctorLocals,
                 min_population_iter, n, device_in_this_iter, generation,
                 queue, evals, visited>>

\* line 133: the inner loop is over; on to the next chunk
compute_NextChunk ==
  /\ pc = "score_read"
  /\ ~InnerLoopRuns(m, device_in_this_iter)
  /\ n' = n + 1
  /\ pc' = "score_issue"
  /\ UNCHANGED <<measureState, reportState, neighbors, inputs, partition, train_set, test_set, ctorLocals,
                 min_population_iter, m, device_in_this_iter, computeState>>

\* lines 133, 149-150: the loop over the chunks is over and compute returns
compute_Return ==
  /\ pc = "score_issue"
  /\ n >= min_population_iter
  /\ pc' = "computed"
  /\ UNCHANGED <<measureState, reportState, neighbors, inputs, partition, train_set, test_set, ctorLocals,
                 computeLocals, computeState>>

Fitness_compute ==
  \/ compute_WarmupTrain
  \/ compute_WarmupTest
  \/ compute_WarmupReturn
  \/ compute_Issue
  \/ compute_Read
  \/ compute_NextChunk
  \/ compute_Return

(***************************************************************************)
(* The caller: the optimizer's loop over the generations 0, 1, 2, ...,      *)
(* which calls compute once per generation.  Its call of report_error      *)
(* after compute returns at once before generation 99 (line 173) and is    *)
(* not part of this loop, which ends at MaxGeneration.                     *)
(***************************************************************************)
Main_compute ==
  /\ pc = "ready"
  /\ compute_Enter(generation)

Main_next ==
  /\ pc = "computed"
  /\ generation < MaxGeneration
  /\ generation' = generation + 1
  /\ pc' = "ready"
  /\ UNCHANGED <<measureState, reportState, neighbors, inputs, partition, train_set, test_set, ctorLocals,
                 computeLocals, fitness, queue, evals, scored, visited>>

NextRun ==
  \/ Fitness_Fitness
  \/ Main_compute
  \/ Fitness_compute
  \/ \E d \in 0..(deviceCount - 1) : Device_Run(d)
  \/ Main_next

SpecRun == InitRun /\ [][NextRun]_vars

(***************************************************************************)
(* Fitness::report_error.                                                  *)
(***************************************************************************)
\* line 173: the checkpoint cadence; line 275: the training-dump cadence
CheckpointInterval == 100
TrainDumpInterval == 1000

\* a checkpoint test shifted by one generation
IsCheckpointShifted(g) == 0 = g % CheckpointInterval

\* line 173: if (0 == (generation + 1) % 100)
IsCheckpoint(g) == 0 = (g + 1) % CheckpointInterval

\* line 275: if (0 == (generation + 1) % 1000)
IsTrainDump(g) == 0 = (g + 1) % TrainDumpInterval

\* the elite as a parameter vector given to find_force: what is recorded of it
\* is the value of its last bias parameter
Elite(e) == [who |-> "elite", index |-> 0, bias |-> e[NumVariablesAnn - 1]]

\* the energy shifts get_rmse_energy can return for the training batch
EnergyShifts == {-1, 0, 1}

\* the elite vectors a caller passes
EliteInputs == {[j \in 0..(NumVariables - 1) |-> v] : v \in {0, 5}}

\* the shifts get_rmse_energy can return for a Dataset: the mean of reference
\* minus prediction, whose magnitude is the Dataset's residual
EnergyShiftsOf(ds) ==
  {shift \in EnergyShifts : shift = ds.residual \/ shift = 0 - ds.residual}

\* the shift applied to the first parameter instead of the last bias
CorrectFirst(e, shift) == [e EXCEPT ![0] = @ + shift]

\* line 184: elite[para.number_of_variables_ann - 1] += energy_shift_per_structure
CorrectBias(e, shift) == [e EXCEPT ![NumVariablesAnn - 1] = @ + shift]

\* the elite as it was when report_error was entered
EliteAtEntry(before, now) == before

\* lines 187, 234-236: elite is read after line 184 has changed it in place
EliteNow(before, now) == now

\* line 293: the Dataset given to update_energy_force_virial for batch b is
\* train_set[0][b]
DumpBatchIndex(b) == 0
DumpDeviceIndex(b) == b

\* update_energy_force_virial(..., dataset), lines 303-349: one line per
\* structure (or atom) of the Dataset, from its prediction buffers
DumpEntry(ds, i, j) ==
  [n1 |-> ds.n1, n2 |-> ds.n2, pred |-> ds.pred, from |-> <<i, j>>]

\* what a read past the end of a vector of Datasets can give: memory that is no
\* Dataset, or a Dataset that happens to lie there
GarbageDataset == [constructed |-> FALSE, n1 |-> -1, n2 |-> -1, device |-> -1,
                   max_NN_radial |-> -1, max_NN_angular |-> -1,
                   pred |-> NoParams, residual |-> -1, warmed |-> FALSE,
                   writers |-> {}]

OutOfBoundsDatasets ==
  {GarbageDataset} \cup {train_set[b][d] : b \in DOMAIN train_set,
                                         d \in 0..(deviceCount - 1)}

\* the cutoff line without the neighbor bounds, whatever the version
CutoffLineBare(v, radial, angular) == <<>>

\* lines 219-231: the cutoff line of nep.txt carries max_NN_radial and
\* max_NN_angular after the two cutoff radii when para.version is 3, and the
\* two radii alone otherwise (the radii are not modelled)
CutoffLine(v, radial, angular) == IF v = 3 THEN <<radial, angular>> ELSE <<>>

\* lines 173-176: report_error(..., generation = g, ..., elite = e) is entered;
\* at a checkpoint the elite is evaluated on train_set[batch_id] on one device
report_error_Enter(g, e) ==
  /\ generation' = g
  /\ elite' = e
  /\ atEntry' = [elite |-> e, files |-> files]
  /\ IF IsCheckpoint(g)
       THEN /\ batch_id' = BatchOf(g, num_batches)
            /\ queue' = find_force(queue, Elite(e), "train", batch_id', FALSE, 1)
            /\ evals' = <<EvalRecord(Elite(e), "train", batch_id', FALSE, 1)>>
            /\ steps' = <<"train_eval">>
            /\ pc' = "ckpt_train_rmse"
       ELSE /\ evals' = <<>>
            /\ steps' = <<>>
            /\ pc' = "reported"
            /\ UNCHANGED <<batch_id, queue>>
  /\ UNCHANGED <<measureState, inputs, partition, neighbors, train_set, test_set, device_id,
                 computeLocals, fitness, scored, visited,
                 energy_shift_per_structure, files>>

\* lines 177-184: the training errors are read from train_set[batch_id][0] and
\* the energy shift is added to the last bias parameter of the elite
report_error_TrainRmse ==
  /\ pc = "ckpt_train_rmse"
  /\ Synced(train_set[batch_id][0].device)
  /\ energy_shift_per_structure' \in EnergyShiftsOf(train_set[batch_id][0])
  /\ elite' = CorrectBias(elite, energy_shift_per_structure')
  /\ steps' = Append(steps, "bias")
  /\ pc' = "ckpt_test_eval"
  /\ UNCHANGED <<measureState, inputs, partition, neighbors, train_set, test_set, ctorLocals,
                 computeLocals, computeState, atEntry, files>>

\* line 187: find_force(para, elite, test_set, false, 1)
report_error_TestEval ==
  /\ pc = "ckpt_test_eval"
  /\ LET e == Elite(EliteNow(atEntry.elite, elite))
     IN  /\ queue' = find_force(queue, e, "test", 0, FALSE, 1)
         /\ evals' = Append(evals, EvalRecord(e, "test", 0, FALSE, 1))
  /\ steps' = Append(steps, "test_eval")
  /\ pc' = "ckpt_test_rmse"
  /\ UNCHANGED <<measureState, inputs, partition, neighbors, train_set, test_set, ctorLocals,
                 computeLocals, generation, fitness, scored, visited, elite,
                 energy_shift_per_structure, atEntry, files>>

\* lines 188-192: the test errors are read from test_set[0]
report_error_TestRmse ==
  /\ pc = "ckpt_test_rmse"
  /\ Synced(test_set[0].device)
  /\ pc' = "ckpt_snapshot"
  /\ UNCHANGED <<measureState, inputs, partition, neighbors, train_set, test_set, ctorLocals,
                 computeLocals, computeState, reportState>>

\* lines 194-252: nep.txt is rewritten with the elite and the descriptor scaler
\* of train_set[0][0], and a line is appended to loss.out
report_error_Snapshot ==
  /\ pc = "ckpt_snapshot"
  /\ nep_txt' = <<[cutoff |-> CutoffLine(version, max_NN_radial, max_NN_angular),
                    params |-> EliteNow(atEntry.elite, elite),
                    scaler |-> <<0, 0>>]>>
  /\ loss_out' = Append(loss_out, generation + 1)
  /\ steps' = Append(Append(steps, "snapshot"), "loss")
  /\ pc' = "ckpt_test_dump"
  /\ UNCHANGED <<measureState, inputs, partition, neighbors, train_set, test_set, ctorLocals,
                 computeLocals, computeState, elite, energy_shift_per_structure,
                 atEntry, test_out, train_out>>

\* lines 254-289: the test dumps are rewritten from test_set[0]; every
\* TrainDumpInterval generations the training dumps are opened for writing
report_error_TestDump ==
  /\ pc = "ckpt_test_dump"
  /\ Synced(test_set[0].device)
  /\ test_out' = <<DumpEntry(test_set[0], 0, 0)>>
  /\ IF IsTrainDump(generation)
       THEN /\ train_out' = <<>>
            /\ steps' = Append(Append(steps, "test_dump"), "train_dump")
            /\ batch_id' = 0
            /\ pc' = "ckpt_train_dump"
       ELSE /\ steps' = Append(steps, "test_dump")
            /\ pc' = "reported"
            /\ UNCHANGED <<train_out, batch_id>>
  /\ UNCHANGED <<measureState, inputs, partition, neighbors, train_set, test_set, device_id,
                 computeLocals, computeState, elite, energy_shift_per_structure,
                 atEntry, nep_txt, loss_out>>

\* lines 291-292: find_force(para, elite, train_set[batch_id], false, 1)
report_error_TrainDumpEval ==
  /\ pc = "ckpt_train_dump"
  /\ batch_id < num_batches
  /\ queue' = find_force(queue, Elite(elite), "train", batch_id, FALSE, 1)
  /\ evals' = Append(evals, EvalRecord(Elite(elite), "train", batch_id, FALSE, 1))
  /\ pc' = "ckpt_train_dump_write"
  /\ UNCHANGED <<measureState, inputs, partition, neighbors, train_set, test_set, ctorLocals,
                 computeLocals, generation, fitness, scored, visited,
                 reportState>>

\* line 293: update_energy_force_virial(..., train_set[0][batch_id]).  An index
\* past the deviceCount Datasets of train_set[0] is undefined behaviour: the
\* dump is made from whatever lies there, or the process dies.
report_error_TrainDumpWrite ==
  /\ pc = "ckpt_train_dump_write"
  /\ LET i == DumpBatchIndex(batch_id)
         j == DumpDeviceIndex(batch_id)
     IN  IF i \in DOMAIN train_set /\ j \in DOMAIN train_set[i]
           THEN /\ Synced(train_set[i][j].device)
                /\ train_out' = Append(train_out, DumpEntry(train_set[i][j], i, j))
                /\ batch_id' = batch_id + 1
                /\ pc' = "ckpt_train_dump"
           ELSE \/ /\ \E ds \in OutOfBoundsDatasets :
                        train_out' = Append(train_out, DumpEntry(ds, i, j))
                   /\ batch_id' = batch_id + 1
                   /\ pc' = "ckpt_train_dump"
                \/ /\ pc' = "crashed"
                   /\ UNCHANGED <<train_out, batch_id>>
  /\ UNCHANGED <<measureState, inputs, partition, neighbors, train_set, test_set, device_id,
                 computeLocals, computeState, elite, energy_shift_per_structure,
                 atEntry, steps, nep_txt,
                 loss_out, test_out>>

\* lines 291, 296-301: the loop over the batches is over; report_error returns
report_error_TrainDumpDone ==
  /\ pc = "ckpt_train_dump"
  /\ batch_id >= num_batches
  /\ pc' = "reported"
  /\ UNCHANGED <<measureState, inputs, partition, neighbors, train_set, test_set, ctorLocals,
                 computeLocals, computeState, reportState>>

Fitness_report_error ==
  \/ report_error_TrainRmse
  \/ report_error_TestEval
  \/ report_error_TestRmse
  \/ report_error_Snapshot
  \/ report_error_TestDump
  \/ report_error_TrainDumpEval
  \/ report_error_TrainDumpWrite
  \/ report_error_TrainDumpDone

(***************************************************************************)
(* A caller of report_error alone: one call, at any generation, with any   *)
(* elite.                                                                  *)
(***************************************************************************)
InitReport ==
  InitWith(1..MaxNcRun, 1..MaxBatchSizeRun, 1..MaxDevices, {1}, PlainNeighbors, {3},
           Evaluators)

Main_report ==
  /\ pc = "ready"
  /\ \E g \in 0..MaxReportGeneration : \E e \in EliteInputs :
       report_error_Enter(g, e)

NextReport ==
  \/ Fitness_Fitness
  \/ Main_report
  \/ Fitness_report_error
  \/ \E d \in 0..(deviceCount - 1) : Device_Run(d)

SpecReport == InitReport /\ [][NextReport]_vars

(***************************************************************************)
(* A caller that constructs a Fitness over structures with differing       *)
(* neighbor counts and writes one snapshot, in either version of the       *)
(* potential.                                                              *)
(***************************************************************************)
InitNeighbors ==
  InitWith(1..MaxNcRun, 1..MaxBatchSizeRun, 1..MaxDevices, {1}, NeighborInputs,
           {2, 3}, {"exact"})

Main_snapshot ==
  /\ pc = "ready"
  /\ \E g \in {CheckpointInterval - 1, TrainDumpInterval - 1} :
       report_error_Enter(g, ZeroElite)

NextNeighbors ==
  \/ Fitness_Fitness
  \/ Main_snapshot
  \/ Fitness_report_error
  \/ \E d \in 0..(deviceCount - 1) : Device_Run(d)

SpecNeighbors == InitNeighbors /\ [][NextNeighbors]_vars

(***************************************************************************)
(* A training run: for each generation 0, 1, 2, ... the caller calls        *)
(* compute and then report_error, up to the first training dump, with one  *)
(* structure per batch and an evaluator that is off by a constant.         *)
(***************************************************************************)
InitTraining ==
  InitWith(1..MaxNcTraining, {1}, 1..MaxDevicesTraining,
           1..MaxPopulationTraining, PlainNeighbors, {3}, {"offset"})

Main_training_report ==
  /\ pc = "computed"
  /\ report_error_Enter(generation, ZeroElite)

Main_training_next ==
  /\ pc = "reported"
  /\ generation < LastTrainingGeneration
  /\ generation' = generation + 1
  /\ pc' = "ready"
  /\ UNCHANGED <<measureState, reportState, neighbors, inputs, partition, train_set, test_set,
                 ctorLocals, computeLocals, fitness, queue, evals, scored, visited>>

NextTraining ==
  \/ Fitness_Fitness
  \/ Main_compute
  \/ Fitness_compute
  \/ Main_training_report
  \/ Fitness_report_error
  \/ \E d \in 0..(deviceCount - 1) : Device_Run(d)
  \/ Main_training_next

SpecTraining == InitTraining /\ [][NextTraining]_vars

(***************************************************************************)
(* A run whose requested batch size is zero or negative.                   *)
(***************************************************************************)
InitMalformed ==
  InitWith(1..MaxNcRun, (0 - MaxBatchSizeRun)..0, 1..MaxDevices, {1},
           PlainNeighbors, {3}, {"exact"})

NextMalformed ==
  \/ Fitness_DivideByZero
  \/ NextRun

SpecMalformed == InitMalformed /\ [][NextMalformed]_vars

(***************************************************************************)
(* Measure (src/src/measure/measure.cu): the keywords of a run are parsed, *)
(* the run is initialized, processed step by step and finalized, and the   *)
(* next run starts with the same Measure object.  PRINT_INPUT_ERROR ends   *)
(* the program.                                                            *)
(***************************************************************************)
\* the members of the Measure object as one record
Members ==
  [compute |-> compute, shc |-> shc, hnemd |-> hnemd,
   modal_analysis |-> modal_analysis, dump_pos |-> dump_pos]

\* the property names of the compute keyword and the flag each one sets
Properties == {"temperature", "potential", "force", "virial", "jp", "jk"}

FlagOf(token) ==
  CASE token = "temperature" -> "compute_temperature"
    [] token = "potential" -> "compute_potential"
    [] token = "force" -> "compute_force"
    [] token = "virial" -> "compute_virial"
    [] token = "jp" -> "compute_jp"
    [] token = "jk" -> "compute_jk"

\* what param[4..] of a compute keyword can hold
PropertyTokens == Properties \cup {"other"}

TokenLists ==
  UNION {[1..len -> PropertyTokens] : len \in 1..MaxProperties}

\* lines 645-667: the loop over the property tokens from token k on; a token
\* that is no property ends the program with the earlier flags already set
RECURSIVE ParseProperties(_, _, _)
ParseProperties(c, tokens, k) ==
  IF k > Len(tokens)
    THEN [compute |-> c, ok |-> TRUE]
    ELSE IF tokens[k] \in Properties
           THEN ParseProperties([c EXCEPT ![FlagOf(tokens[k])] = 1], tokens, k + 1)
           ELSE [compute |-> c, ok |-> FALSE]

\* lines 610-672: parse_compute; header_ok stands for the checks of lines
\* 613-642 on the number of parameters, the grouping method and the intervals
Measure_parse_compute ==
  /\ measure_pc = "parsing"
  /\ \E header_ok \in BOOLEAN : \E tokens \in TokenLists :
       IF header_ok
         THEN LET r == ParseProperties(compute, tokens, 1)
              IN  /\ compute' = r.compute
                  /\ measure_pc' = IF r.ok THEN "parsing" ELSE "exited"
         ELSE /\ measure_pc' = "exited"
              /\ UNCHANGED compute
  /\ UNCHANGED <<fitnessState, USE_NETCDF, shc, hnemd, modal_analysis, dump_pos,
                 measure_step, requested>>

\* lines 515-608: parse_compute_shc sets shc.compute first (line 518) and
\* then checks its parameters
Measure_parse_compute_shc ==
  /\ measure_pc = "parsing"
  /\ shc' = [shc EXCEPT !.compute = 1]
  /\ \E valid \in BOOLEAN : measure_pc' = IF valid THEN "parsing" ELSE "exited"
  /\ UNCHANGED <<fitnessState, USE_NETCDF, compute, hnemd, modal_analysis,
                 dump_pos, measure_step, requested>>

\* lines 478-513: parse_compute_hnemd sets hnemd.compute first (line 480)
Measure_parse_compute_hnemd ==
  /\ measure_pc = "parsing"
  /\ hnemd' = [hnemd EXCEPT !.compute = 1]
  /\ \E valid \in BOOLEAN : measure_pc' = IF valid THEN "parsing" ELSE "exited"
  /\ UNCHANGED <<fitnessState, USE_NETCDF, compute, shc, modal_analysis, dump_pos,
                 measure_step, requested>>

\* lines 231-342: parse_compute_gkma sets modal_analysis.compute and
\* modal_analysis.method (lines 233, 245) before it checks its parameters
Measure_parse_compute_gkma ==
  /\ measure_pc = "parsing"
  /\ modal_analysis' = [compute |-> 1, method |-> "GKMA_METHOD"]
  /\ \E valid \in BOOLEAN : measure_pc' = IF valid THEN "parsing" ELSE "exited"
  /\ UNCHANGED <<fitnessState, USE_NETCDF, compute, shc, hnemd, dump_pos,
                 measure_step, requested>>

\* lines 344-476: parse_compute_hnema, the same with HNEMA_METHOD (lines 346,
\* 358)
Measure_parse_compute_hnema ==
  /\ measure_pc = "parsing"
  /\ modal_analysis' = [compute |-> 1, method |-> "HNEMA_METHOD"]
  /\ \E valid \in BOOLEAN : measure_pc' = IF valid THEN "parsing" ELSE "exited"
  /\ UNCHANGED <<fitnessState, USE_NETCDF, compute, shc, hnemd, dump_pos,
                 measure_step, requested>>

\* lines 151-229: parse_dump_position; args_ok stands for the checks of lines
\* 155-196.  A new dumper replaces dump_pos, of the class the format asks
\* for; netcdf without USE_NETCDF is an input error (line 213)
Measure_parse_dump_position ==
  /\ measure_pc = "parsing"
  /\ \E args_ok \in BOOLEAN : \E format \in {"xyz", "netcdf"} :
       IF args_ok /\ (format = "xyz" \/ USE_NETCDF)
         THEN /\ dump_pos' = IF format = "netcdf" THEN "DUMP_NETCDF" ELSE "DUMP_XYZ"
              /\ UNCHANGED measure_pc
         ELSE /\ measure_pc' = "exited"
              /\ UNCHANGED dump_pos
  /\ UNCHANGED <<fitnessState, USE_NETCDF, compute, shc, hnemd, modal_analysis,
                 measure_step, requested>>

\* lines 29-51: initialize; the preprocess calls read the flags
Measure_initialize ==
  /\ measure_pc = "parsing"
  /\ measure_pc' = "running"
  /\ measure_step' = 0
  /\ UNCHANGED <<fitnessState, USE_NETCDF, measureMembers, requested>>

\* lines 92-149: process, for one step of the run
Measure_process ==
  /\ measure_pc = "running"
  /\ measure_step < NumberOfSteps
  /\ measure_step' = measure_step + 1
  /\ UNCHANGED <<fitnessState, measure_pc, USE_NETCDF, measureMembers, requested>>

\* a reset that leaves the modal-analysis method as it is
ResetDefaultsKeepsMethod(ms) ==
  [ms EXCEPT !.compute = NoMeasurements.compute, !.shc.compute = 0,
             !.modal_analysis.compute = 0, !.hnemd.compute = 0]

\* lines 74-84: "reset the defaults"
ResetDefaults(ms) ==
  [ms EXCEPT !.compute = NoMeasurements.compute, !.shc.compute = 0,
             !.modal_analysis.compute = 0,
             !.modal_analysis.method = "NO_METHOD", !.hnemd.compute = 0]

\* lines 53-90: finalize, after the last step; the postprocess calls come
\* before the reset, and dump_pos is finalized, deleted and set to NULL
Measure_finalize ==
  /\ measure_pc = "running"
  /\ measure_step = NumberOfSteps
  /\ requested' = Members
  /\ LET ms == ResetDefaults(Members)
     IN  /\ compute' = ms.compute
         /\ shc' = ms.shc
         /\ hnemd' = ms.hnemd
         /\ modal_analysis' = ms.modal_analysis
  /\ dump_pos' = "NULL"
  /\ measure_pc' = "finalized"
  /\ UNCHANGED <<fitnessState, USE_NETCDF, measure_step>>

\* the driver goes on to the keywords of the next run
Main_next_run ==
  /\ measure_pc = "finalized"
  /\ measure_pc' = "parsing"
  /\ requested' = NoMeasurements
  /\ UNCHANGED <<fitnessState, USE_NETCDF, measureMembers, measure_step>>

InitMeasureRun ==
  /\ InitMeasure(BOOLEAN)
  /\ InitFitnessWith({1}, {1}, {1}, {1}, PlainNeighbors, {3}, {"exact"})

NextMeasure ==
  \/ Measure_parse_dump_position
  \/ Measure_parse_compute
  \/ Measure_parse_compute_shc
  \/ Measure_parse_compute_hnemd
  \/ Measure_parse_compute_gkma
  \/ Measure_parse_compute_hnema
  \/ Measure_initialize
  \/ Measure_process
  \/ Measure_finalize
  \/ Main_next_run

SpecMeasure == InitMeasureRun /\ [][NextMeasure]_vars

(***************************************************************************)
(* Properties of Fitness::compute.                                         *)
(***************************************************************************)
Scoring == pc \in {"score_issue", "score_read"}

ScoredGeneration == pc = "computed" /\ generation > 0

\* the positions in the history `scored` at which individual i was scored
ScoredAt(i) == {k \in 1..Len(scored) : scored[k].ind = i}

\* C2: a scoring call of compute runs ceil(P/D) chunks, chunk c is issued for the
\* individuals D*c + m, m in [0, min(D, P - D*c)), exactly these are scored in
\* chunk c, and over the generation every individual 0..P-1 is scored exactly
\* once and nothing else is scored.
C2_EveryIndividualOnce ==
  ScoredGeneration =>
    /\ Len(evals) = Ceil(population_size, deviceCount)
    /\ \A c \in 0..(Len(evals) - 1) :
         LET size == Min(deviceCount, population_size - deviceCount * c)
         IN  /\ evals[c + 1].params = Individual(deviceCount * c)
             /\ evals[c + 1].ndev = size
             /\ {scored[k].ind : k \in {j \in 1..Len(scored) : scored[j].chunk = c}}
                  = {deviceCount * c + mm : mm \in 0..(size - 1)}
    /\ \A i \in 0..(population_size - 1) : Cardinality(ScoredAt(i)) = 1
    /\ \A k \in 1..Len(scored) : scored[k].ind \in 0..(population_size - 1)

\* a finished scoring generation with several chunks, the last one partial
C2_Witness ==
  /\ ScoredGeneration
  /\ population_size > deviceCount
  /\ population_size % deviceCount # 0
  /\ Len(scored) = population_size

\* C3: every scoring generation g uses batch g mod num_batches; the batch of
\* generation g + num_batches is the batch of generation g, and any num_batches
\* consecutive scoring generations visit every batch exactly once.
\* (visited[g] is the batch of generation g: generation 0 scores nothing.)
C3_RoundRobin ==
  /\ (Scoring \/ ScoredGeneration) =>
       /\ batch_id = generation % num_batches
       /\ Len(visited) = generation
       /\ visited[generation] = batch_id
  /\ \A g \in 1..Len(visited) :
       /\ (g + num_batches <= Len(visited)) => visited[g] = visited[g + num_batches]
       /\ (g + num_batches - 1 <= Len(visited)) =>
            /\ {visited[k] : k \in g..(g + num_batches - 1)} = 0..(num_batches - 1)
            /\ \A b \in 0..(num_batches - 1) :
                 Cardinality({k \in g..(g + num_batches - 1) : visited[k] = b}) = 1

\* two full rounds over at least two batches have been scored
C3_Witness ==
  /\ ScoredGeneration
  /\ num_batches >= 2
  /\ Len(visited) >= 2 * num_batches

\* C5: throughout the warm-up call compute(generation = 0), and after it has
\* returned, every entry of the caller's fitness array holds the value it held
\* before the call.
C5_WarmupLeavesFitness ==
  (generation = 0) =>
    \A i \in DOMAIN fitness : fitness[i] = CallerValue

\* the warm-up call has returned after issuing its evaluations
C5_Witness ==
  /\ pc = "computed"
  /\ generation = 0
  /\ Len(evals) >= 2
  /\ population_size >= 2
  /\ \A i \in DOMAIN fitness : fitness[i] = CallerValue

\* C8: every evaluation is issued to device d on the Dataset at index d of its
\* vector, which device d owns; the evaluation of a chunk's individual D*n + m is
\* issued on train_set[batch_id][m]; its three fitness values are read from that
\* same Dataset, holding the predictions of that individual; two individuals of
\* a chunk never use the same Dataset; no Dataset is written by two devices.
C8_OwnDataset ==
  /\ \A d \in DOMAIN queue : \A k \in 1..Len(queue[d]) :
       /\ queue[d][k].ds = d
       /\ (queue[d][k].params.who = "individual") =>
            /\ queue[d][k].set = "train"
            /\ queue[d][k].batch = batch_id
            /\ queue[d][k].params.index = deviceCount * n + d
  /\ \A b \in DOMAIN train_set : \A d \in DOMAIN train_set[b] :
       /\ train_set[b][d].writers \subseteq {d}
       /\ train_set[b][d].constructed => train_set[b][d].device = d
  /\ \A d \in DOMAIN test_set : test_set[d].writers \subseteq {d}
  /\ (Scoring \/ ScoredGeneration) =>
       /\ \A k \in 1..Len(scored) : \A c \in 0..2 :
            LET r == scored[k]
                f == fitness[r.ind + c * population_size]
            IN  /\ r.ind = deviceCount * r.chunk + r.m
                /\ f.batch = batch_id
                /\ f.ds = r.m
                /\ f.pred = Individual(r.ind)
       /\ \A k1, k2 \in 1..Len(scored) :
            (k1 # k2 /\ scored[k1].chunk = scored[k2].chunk) =>
              fitness[scored[k1].ind].ds # fitness[scored[k2].ind].ds

\* a chunk of two or more individuals has been read completely
C8_Witness ==
  /\ pc = "score_read"
  /\ device_in_this_iter >= 2
  /\ m = device_in_this_iter
  /\ \E d \in DOMAIN train_set[batch_id] : d > 0 /\ train_set[batch_id][d].writers = {d}

\* a host step that reads the fitness values of individual deviceCount * n + m
ReadStep == pc = "score_read" /\ m' = m + 1

\* a host step that issues chunk n
IssueStep == pc = "score_issue" /\ pc' = "score_read"

\* a device step that starts overwriting a Dataset with a scoring evaluation
OverwriteStep(d) ==
  /\ Len(queue'[d]) < Len(queue[d])
  /\ Head(queue[d]).params.who = "individual"

\* C9: the host reads the fitness values of an individual only when the evaluation
\* issued for it has completed (nothing pending on its device, its predictions in
\* the Dataset); it issues chunk n only when every individual of the chunks
\* before n has been read; and a device overwrites a Dataset with an individual's
\* predictions only when every earlier individual of that device has been scored.
C9_ChunkOrdering ==
  [][ /\ ReadStep =>
           /\ queue[m] = <<>>
           /\ train_set[batch_id][m].pred = Individual(deviceCount * n + m)
      /\ IssueStep =>
           /\ \A i \in 0..(deviceCount * n - 1) : ScoredAt(i) # {}
           /\ \A d \in DOMAIN queue : \A k \in 1..Len(queue[d]) :
                queue[d][k].params.who # "individual"
      /\ \A d \in DOMAIN queue :
           OverwriteStep(d) =>
             \A i \in 0..(Head(queue[d]).params.index - 1) :
               (i % deviceCount = d) => ScoredAt(i) # {}
    ]_vars

\* the second chunk of a generation is being read
C9_Witness ==
  /\ pc = "score_read"
  /\ n >= 1
  /\ m >= 1
  /\ deviceCount >= 2

(***************************************************************************)
(* Properties of Fitness::report_error.                                    *)
(***************************************************************************)
Reported == pc = "reported"

Performed(step) == \E k \in 1..Len(steps) : steps[k] = step

\* the generations 99, 199, 299, ... and 999, 1999, ...
Every100th == {100 * k - 1 : k \in 1..(MaxReportGeneration \div 100 + 1)}
Every1000th == {1000 * k - 1 : k \in 1..(MaxReportGeneration \div 1000 + 1)}

\* C4: when report_error has returned, the checkpoint (training and test
\* re-evaluation, bias correction, nep.txt snapshot, loss line, test dumps) has
\* been performed exactly if the generation is one of 99, 199, 299, ...; at any
\* other generation nothing was evaluated and the elite and every file are as
\* they were; the training-set dump has been performed exactly if the
\* generation is one of 999, 1999, ...  While report_error runs, a step is
\* performed only at such a generation.
C4_CheckpointCadence ==
  /\ (steps # <<>>) => generation \in Every100th
  /\ Performed("train_dump") => generation \in Every1000th
  /\ Reported =>
    /\ \A step \in {"train_eval", "bias", "test_eval", "snapshot", "loss", "test_dump"} :
         Performed(step) <=> generation \in Every100th
    /\ (generation \in Every100th) =>
         /\ Len(evals) >= 2
         /\ nep_txt # <<>>
         /\ test_out # <<>>
         /\ loss_out = Append(atEntry.files[2], generation + 1)
    /\ (generation \notin Every100th) =>
         /\ evals = <<>>
         /\ steps = <<>>
         /\ elite = atEntry.elite
         /\ files = atEntry.files
    /\ Performed("train_dump") <=> generation \in Every1000th
    /\ (generation \in Every1000th) => Len(evals) = 2 + num_batches
    /\ (generation \notin Every1000th) =>
         /\ train_out = atEntry.files[4]
         /\ Len(evals) <= 2

\* report_error has returned from a checkpoint with the training-set dump
C4_Witness ==
  /\ Reported
  /\ generation = 1999
  /\ Performed("snapshot")
  /\ Performed("train_dump")
  /\ Len(train_out) = num_batches

\* C6 as stated: when report_error has returned, at any generation, the elite
\* vector of the caller holds the values it held when report_error was entered.
C6_EliteUnchanged ==
  Reported => elite = atEntry.elite

\* the structures whose predictions entry k of the training dump holds
DumpedRange(k) == train_out[k].n1 .. (train_out[k].n2 - 1)

\* C7 as stated: after the training-set dump of a generation g with
\* (g+1) mod 1000 = 0, the part of the dump written for batch b was read from
\* the Dataset of batch b that the elite was just evaluated on, so that every
\* training structure appears in the dump exactly once.
C7_TrainDumpWholeSet ==
  (Reported /\ IsTrainDump(generation)) =>
    /\ Len(train_out) = num_batches
    /\ \A b \in 0..(num_batches - 1) :
         /\ train_out[b + 1].from = <<b, 0>>
         /\ train_out[b + 1].n1 = train_set[b][0].n1
         /\ train_out[b + 1].n2 = train_set[b][0].n2
         /\ train_out[b + 1].pred = Elite(elite)
    /\ \A s \in 0..(Nc_total - 1) :
         Cardinality({k \in 1..Len(train_out) : s \in DumpedRange(k)}) = 1


(***************************************************************************)
(* Properties of the neighbor bounds.                                      *)
(***************************************************************************)
\* every Dataset the constructor has built
AllDatasets ==
  {train_set[b][d] : b \in 0..(num_batches - 1), d \in 0..(deviceCount - 1)}
    \cup {test_set[d] : d \in 0..(deviceCount - 1)}

\* C13 as stated: after construction max_NN_radial and max_NN_angular are the
\* largest max_NN_radial and max_NN_angular over all constructed Datasets,
\* every training batch and the test set, and the cutoff line of every
\* snapshot carries these two, whatever the version.
C13_NeighborBoundsOnCutoffLine ==
  /\ (pc \notin {"read_train", "construct_train", "construct_test"}) =>
       /\ max_NN_radial = MaxOf({ds.max_NN_radial : ds \in AllDatasets})
       /\ max_NN_angular = MaxOf({ds.max_NN_angular : ds \in AllDatasets})
  /\ (nep_txt # <<>>) =>
       nep_txt[1].cutoff = <<MaxOf({ds.max_NN_radial : ds \in AllDatasets}),
                             MaxOf({ds.max_NN_angular : ds \in AllDatasets})>>

\* C13 amended: after construction max_NN_radial and max_NN_angular are the
\* largest max_NN_radial and max_NN_angular over all constructed Datasets,
\* every training batch and the test set; a snapshot of version 3 carries
\* these two on its cutoff line, and a snapshot of any other version carries
\* no neighbor bounds there.
C13_GlobalNeighborMaximum ==
  /\ (pc \notin {"read_train", "construct_train", "construct_test"}) =>
       /\ max_NN_radial = MaxOf({ds.max_NN_radial : ds \in AllDatasets})
       /\ max_NN_angular = MaxOf({ds.max_NN_angular : ds \in AllDatasets})
  /\ (nep_txt # <<>> /\ version = 3) =>
       nep_txt[1].cutoff = <<MaxOf({ds.max_NN_radial : ds \in AllDatasets}),
                             MaxOf({ds.max_NN_angular : ds \in AllDatasets})>>
  /\ (nep_txt # <<>> /\ version # 3) => nep_txt[1].cutoff = <<>>

\* a snapshot of version 3 over three batches, where the radial bound comes
\* from the test set alone and the angular bound from the training batches
C13_Witness ==
  /\ pc = "reported"
  /\ version = 3
  /\ num_batches = 3
  /\ nep_txt # <<>>
  /\ nep_txt[1].cutoff = <<2, 2>>
  /\ test_set[0].max_NN_radial = 2
  /\ \A b \in 0..(num_batches - 1) : train_set[b][0].max_NN_radial = 1


(***************************************************************************)
(* Properties of the fitness array.                                        *)
(***************************************************************************)
\* C15: with an evaluator whose predictions equal the references, after a
\* scoring generation all three fitness components of every individual
\* 0..P-1 are 0, for every population size and device count.
C15_ExactEvaluatorZeroFitness ==
  (ScoredGeneration /\ evaluator = "exact") =>
    \A i \in 0..(population_size - 1) : \A k \in 0..2 :
      fitness[i + k * population_size].value = 0

\* the scenario of two structures in one batch, one device and a population
\* of three, scored with exact predictions
C15_Witness ==
  /\ ScoredGeneration
  /\ evaluator = "exact"
  /\ Nc_total = 2
  /\ num_batches = 1
  /\ deviceCount = 1
  /\ population_size = 3
  /\ \A i \in 0..(3 * population_size - 1) : fitness[i].value = 0

\* the (scored individual, component) pairs whose write went to index x
WritesTo(x) ==
  {w \in (1..Len(scored)) \X (0..2) : scored[w[1]].written[w[2] + 1] = x}

\* C16: in a scoring generation every write goes to an index in [0, 3P), each
\* of the 3P entries is written exactly once, and entry i + k*P holds
\* component k (0 the weighted energy error, 1 force, 2 virial) of
\* individual i.
C16_EveryEntryOnceInLayout ==
  /\ \A w \in 1..Len(scored) : \A k \in 1..3 :
       scored[w].written[k] \in 0..(3 * population_size - 1)
  /\ ScoredGeneration =>
       /\ \A x \in 0..(3 * population_size - 1) : Cardinality(WritesTo(x)) = 1
       /\ \A i \in 0..(population_size - 1) : \A k \in 0..2 :
            /\ fitness[i + k * population_size].comp = Component(k)
            /\ fitness[i + k * population_size].pred = Individual(i)
            /\ fitness[i + k * population_size].value =
                 Lambda(k) * Residual(evaluator)

\* a scored generation whose population is no multiple of the device count,
\* with errors that are not zero
C16_Witness ==
  /\ ScoredGeneration
  /\ deviceCount = 3
  /\ population_size = 5
  /\ evaluator = "offset"
  /\ fitness[4 + 2 * population_size].comp = "virial"
  /\ fitness[4 + 2 * population_size].value = Lambda(2)


(***************************************************************************)
(* Properties of the checkpoint's steps.                                   *)
(***************************************************************************)
\* the steps of a checkpoint in the order of the source; the loss line is
\* part of writing the snapshot
CheckpointOrder ==
  <<"train_eval", "bias", "test_eval", "snapshot", "loss", "test_dump",
    "train_dump">>

\* C11: at a checkpoint the steps happen in this order, each after the
\* previous one has finished: the elite is evaluated on one device on
\* training batch g mod num_batches; the energy shift is applied to the
\* elite's last bias parameter; the corrected elite is evaluated on the test
\* set on one device; the snapshot is written; the test dumps are written;
\* and only if (g + 1) mod 1000 = 0 the training dump is written.
C11_CheckpointStepOrder ==
  /\ Len(steps) <= Len(CheckpointOrder)
  /\ \A k \in 1..Len(steps) : steps[k] = CheckpointOrder[k]
  /\ Performed("train_eval") =>
       evals[1] = [params |-> Elite(atEntry.elite), set |-> "train",
                   batch |-> generation % num_batches, warmup |-> FALSE,
                   ndev |-> 1]
  /\ (Performed("bias") /\ ~Performed("train_dump")) =>
       /\ train_set[generation % num_batches][0].pred = Elite(atEntry.elite)
       /\ train_set[generation % num_batches][0].writers = {0}
  /\ Performed("bias") =>
       elite = CorrectBias(atEntry.elite, energy_shift_per_structure)
  /\ Performed("test_eval") =>
       evals[2] = [params |-> Elite(elite), set |-> "test", batch |-> 0,
                   warmup |-> FALSE, ndev |-> 1]
  /\ Performed("snapshot") =>
       /\ test_set[0].pred = Elite(elite)
       /\ nep_txt # <<>>
       /\ nep_txt[1].params = elite
  /\ Performed("test_dump") =>
       /\ test_out # <<>>
       /\ test_out[1].pred = Elite(elite)
  /\ Performed("train_dump") => (generation + 1) % TrainDumpInterval = 0
  /\ (Reported /\ steps # <<>>) =>
       Len(steps) = IF (generation + 1) % TrainDumpInterval = 0 THEN 7 ELSE 6
  /\ (Reported /\ (generation + 1) % TrainDumpInterval # 0) =>
       train_out = atEntry.files[4]

\* a finished checkpoint with a training dump, on the second of two batches,
\* whose energy shift was not zero
C11_Witness ==
  /\ Reported
  /\ generation = TrainDumpInterval - 1
  /\ num_batches = 2
  /\ steps = CheckpointOrder
  /\ energy_shift_per_structure # 0
  /\ evals[1].batch = 1

\* the mean of prediction minus reference over the re-evaluated training
\* batch: the negative of the shift get_rmse_energy returns
EnergyBias == 0 - energy_shift_per_structure

\* C20: at a checkpoint the bias correction changes exactly one element of
\* the elite vector, index number_of_variables_ann - 1, subtracting the energy
\* bias of the training re-evaluation from it; every other element is
\* unchanged; the test-set re-evaluation and the parameter lines of nep.txt
\* use the corrected vector.
C20_BiasCorrection ==
  /\ Performed("bias") =>
       /\ elite[NumVariablesAnn - 1] =
            atEntry.elite[NumVariablesAnn - 1] - EnergyBias
       /\ \A j \in 0..(NumVariables - 1) :
            j # NumVariablesAnn - 1 => elite[j] = atEntry.elite[j]
       /\ EnergyBias \in {Residual(evaluator), 0 - Residual(evaluator)}
  /\ Performed("test_eval") =>
       evals[2].params.bias = atEntry.elite[NumVariablesAnn - 1] - EnergyBias
  /\ Performed("snapshot") =>
       /\ nep_txt[1].params[NumVariablesAnn - 1] =
            atEntry.elite[NumVariablesAnn - 1] - EnergyBias
       /\ \A j \in 0..(NumVariables - 1) :
            j # NumVariablesAnn - 1 => nep_txt[1].params[j] = atEntry.elite[j]

\* a finished checkpoint whose elite had last bias 5 and an energy bias of 1
C20_Witness ==
  /\ Reported
  /\ steps # <<>>
  /\ EnergyBias = 1
  /\ atEntry.elite[NumVariablesAnn - 1] = 5
  /\ elite[NumVariablesAnn - 1] = 4
  /\ evals[2].params.bias = 4
  /\ nep_txt[1].params[NumVariablesAnn - 1] = 4


(***************************************************************************)
(* Properties of the warm-up.                                              *)
(***************************************************************************)
InCompute ==
  pc \in {"warmup_train", "warmup_test", "score_issue", "score_read", "computed"}

\* C12: with compute called for generations 0, 1, 2, ... the warm-up branch
\* (all-ones parameters, warmup = true) is taken exactly once, at generation
\* 0; every later call takes the scoring branch, also at the multiples of
\* num_batches.
C12_WarmupOnlyAtGenerationZero ==
  /\ pc \in {"warmup_train", "warmup_test"} => generation = 0
  /\ Scoring => generation > 0
  /\ InCompute =>
       \A k \in 1..Len(evals) :
         IF generation = 0
           THEN evals[k].warmup /\ evals[k].params = Ones
           ELSE ~evals[k].warmup /\ evals[k].params.who = "individual"
  /\ pc = "computed" =>
       /\ evals # <<>>
       /\ Len(visited) = generation

\* a scoring call at a multiple of num_batches, after two cycles of two batches
C12_Witness ==
  /\ pc = "computed"
  /\ num_batches = 2
  /\ generation = 4
  /\ Len(visited) = 4
  /\ evals # <<>>
  /\ \A k \in 1..Len(evals) : ~evals[k].warmup

\* the positions in the history `evals` of the calls on the given set and batch
CallsOn(set, b) ==
  {k \in 1..Len(evals) : evals[k].set = set /\ evals[k].batch = b}

\* C18 as stated: the warm-up call invokes the evaluator with the all-ones
\* vector and warmup = true exactly num_batches + 1 times, once per training
\* batch on all deviceCount devices and once for the test set.
C18_WarmupCallCount ==
  (pc = "computed" /\ generation = 0) =>
    /\ Len(evals) = num_batches + 1
    /\ \A k \in 1..Len(evals) : evals[k].warmup /\ evals[k].params = Ones
    /\ \A b \in 0..(num_batches - 1) :
         /\ Cardinality(CallsOn("train", b)) = 1
         /\ \A k \in CallsOn("train", b) : evals[k].ndev = deviceCount
    /\ Cardinality(CallsOn("test", 0)) = 1

(***************************************************************************)
(* Properties of the accesses to train_set and test_set.                   *)
(***************************************************************************)
\* C17 as stated: every access train_set[i][j] has 0 <= i < num_batches and
\* 0 <= j < deviceCount, here for the accesses of report_error: the
\* evaluations it issues and the Datasets it dumps.
C17_AccessesInBounds ==
  /\ pc # "crashed"
  /\ steps # <<>> =>
       \A k \in 1..Len(evals) :
         evals[k].set = "train" => evals[k].batch \in 0..(num_batches - 1)
  /\ \A k \in 1..Len(train_out) :
       /\ train_out[k].from[1] \in 0..(num_batches - 1)
       /\ train_out[k].from[2] \in 0..(deviceCount - 1)
  /\ \A k \in 1..Len(test_out) : test_out[k].from[2] \in 0..(deviceCount - 1)


(***************************************************************************)
(* Properties of a training run.                                           *)
(***************************************************************************)
\* C19: when the generations run 0, 1, 2, ..., every Dataset that has been
\* evaluated with warmup = false (for an individual in a scoring generation
\* or for the elite at a checkpoint) had been evaluated with warmup = true
\* before, and so had train_set[0][0] when its descriptor scaler was written
\* to the snapshot.
C19_WarmedBeforeUse ==
  /\ pc \notin {"read_train", "construct_train", "construct_test"} =>
       \A ds \in AllDatasets :
         ds.pred.who \in {"individual", "elite"} => ds.warmed
  /\ nep_txt # <<>> => train_set[0][0].warmed

\* a run past the first training dump in which the Datasets of both devices
\* have been scored and the elite has been evaluated on the test set
C19_Witness ==
  /\ Reported
  /\ generation = LastTrainingGeneration
  /\ nep_txt # <<>>
  /\ deviceCount = 2
  /\ num_batches = 2
  /\ train_set[0][1].pred.who = "individual"
  /\ train_set[1][0].pred.who = "elite"
  /\ test_set[0].pred.who = "elite"


(***************************************************************************)
(* Properties of a malformed configuration.                                *)
(***************************************************************************)
\* C14 as stated: with a requested batch size <= 0, a device count of 0 or an
\* empty training set the run ends in the constructor, before any
\* evaluation is issued.
C14_MalformedRejected ==
  (batch_size_old <= 0 \/ deviceCount = 0 \/ Nc_total = 0) =>
    /\ pc \in {"read_train", "crashed"}
    /\ evals = <<>>
    /\ \A d \in DOMAIN queue : queue[d] = <<>>


(***************************************************************************)
(* Properties of the effective batch size.                                 *)
(***************************************************************************)
\* C21: for every non-empty training set and requested batch size b >= 1 the
\* recomputed batch size is at most b, every batch is built over a non-empty
\* range n1 < n2 on every device, and the number of batches recomputed from
\* the effective batch size, ceil(Nc_total / effective), is num_batches.
C21_EffectiveBatchSizeConsistent ==
  Constructed =>
    /\ batch_size >= 1
    /\ batch_size <= batch_size_old
    /\ \A b \in 0..(num_batches - 1) : \A d \in 0..(deviceCount - 1) :
         /\ train_set[b][d].constructed
         /\ train_set[b][d].n1 < train_set[b][d].n2
    /\ Ceil(Nc_total, batch_size) = num_batches

\* a partition of six structures, requested in batches of four, into two
\* batches of three
C21_Witness ==
  /\ Constructed
  /\ Nc_total = 6
  /\ batch_size_old = 4
  /\ num_batches = 2
  /\ batch_size = 3
  /\ deviceCount >= 2
  /\ train_set[1][1].n1 < train_set[1][1].n2


(***************************************************************************)
(* Properties of Measure::finalize.                                        *)
(***************************************************************************)
\* C22: after Measure::finalize has returned, whatever keywords were parsed
\* before it, the flags compute_temperature, compute_potential, compute_force,
\* compute_virial, compute_jp, compute_jk, shc.compute, hnemd.compute and
\* modal_analysis.compute are 0, modal_analysis.method is NO_METHOD and
\* dump_pos is NULL.
C22_FinalizeResetsMeasurements ==
  measure_pc = "finalized" =>
    /\ \A token \in Properties : compute[FlagOf(token)] = 0
    /\ shc.compute = 0
    /\ hnemd.compute = 0
    /\ modal_analysis.compute = 0
    /\ modal_analysis.method = "NO_METHOD"
    /\ dump_pos = "NULL"

\* finalize has returned from a run for which a position dump, two computed
\* properties, the spectral heat current, HNEMD and a modal analysis had
\* been requested
C22_Witness ==
  /\ measure_pc = "finalized"
  /\ requested.dump_pos = "DUMP_XYZ"
  /\ requested.compute.compute_temperature = 1
  /\ requested.compute.compute_jk = 1
  /\ requested.shc.compute = 1
  /\ requested.hnemd.compute = 1
  /\ requested.modal_analysis = [compute |-> 1, method |-> "HNEMA_METHOD"]
  /\ Members = NoMeasurements

=============================================================================
